---- MODULE Spec2Model ----
(***************************************************************************)
(* The event bridge of the AGN web IDE (web/app/api/gemini/route.ts):       *)
(* the console.info decoder, the agn-animation listener, the Run handler    *)
(* and the card click handler, over the React state `outputs` and `logs`.   *)
(*                                                                          *)
(* A string that is matched by a regular expression is a sequence of        *)
(* lexemes: the one-character lexemes "[", "]", " ", "'" and words, which   *)
(* are maximal runs of other characters.  Join gives the string back.       *)
(***************************************************************************)
EXTENDS Integers, Sequences, FiniteSets, TLC

\* crashed: a state updater threw during a render and React has taken the
\* page down: the console overrides and the listener are removed, outputs
\* and logs keep the last committed state, which is no longer shown, and
\* only the promises of a pending handleRun still settle
\* history: every entry logged since the last reset (a record kept for the
\* properties; the program keeps only logs)
\* post: the invocation of the proxy's POST handler that is being served
\* gpu: the latest shader invocation, its inputs and what it returned
VARIABLES outputs, logs, wasmRef, pc, outbound, crashed, events, lines, last, history, post, gpu

vars == <<outputs, logs, wasmRef, pc, outbound, crashed, events, lines, last, history, post, gpu>>

(* ---------------------------------------------------------------- bounds *)
\* Run clicks, printed lines and card clicks of one session
MaxEvents == 4
MaxDecodeEvents == 3
MaxRuns == 2
\* requests the proxy receives
MaxRequests == 2
\* events of a session that fills the log panel
MaxLogEvents == 53
\* how many of them may be Run clicks, failures and calls of other code
MaxLogPrefix == 2

(* ------------------------------------------------------ program constants *)
LogKeep == 99
PanelSize == 100
ShadowThreshold == 10

(* ------------------------------------------------------ JavaScript values *)
Undefined == [t |-> "undefined", s |-> "", n |-> 0]
Null == [t |-> "null", s |-> "", n |-> 0]
Str(x) == [t |-> "string", s |-> x, n |-> 0]
Num(k) == [t |-> "number", s |-> "", n |-> k]

Digit(d) == <<"0", "1", "2", "3", "4", "5", "6", "7", "8", "9">>[d + 1]

RECURSIVE NatToString(_)
NatToString(k) == IF k < 10 THEN Digit(k) ELSE NatToString(k \div 10) \o Digit(k % 10)

\* String(v), as a template literal `${v}` computes it
JSString(v) ==
    CASE v.t = "string" -> v.s
      [] v.t = "number" -> NatToString(v.n)
      [] v.t = "null" -> "null"
      [] OTHER -> "undefined"

RECURSIVE Join(_)
Join(seq) == IF seq = <<>> THEN "" ELSE Head(seq) \o Join(Tail(seq))

\* strings of the model whose characters include the character c
Blue == "\\u9752"
Red == "\\u8d64"
Includes(s, c) ==
    \/ s = c
    \/ c = Blue /\ s \in {"\\u9752\\u8272", "\\u9752\\u8d64"}
    \/ c = Red /\ s \in {"\\u8d64\\u8272", "\\u9752\\u8d64"}

ToLowerCase(s) ==
    CASE s = "Blue" -> "blue"
      [] s = "RED" -> "red"
      [] OTHER -> s

\* ToNumber of a string, for the words of the model: <<is a number, value>>
StringToNumber(s) ==
    CASE s = "5" -> <<TRUE, 5>>
      [] s = "10" -> <<TRUE, 10>>
      [] s = "12" -> <<TRUE, 12>>
      [] s = "20" -> <<TRUE, 20>>
      [] s = "" -> <<TRUE, 0>>
      [] OTHER -> <<FALSE, 0>>

\* a variant that compares with >= instead of >
GreaterOrEqual(v, k) ==
    CASE v.t = "number" -> v.n >= k
      [] v.t = "string" -> StringToNumber(v.s)[1] /\ StringToNumber(v.s)[2] >= k
      [] v.t = "null" -> 0 >= k
      [] OTHER -> FALSE

\* v > k by the abstract relational comparison (NaN compares false)
GreaterThan(v, k) ==
    CASE v.t = "number" -> v.n > k
      [] v.t = "string" -> StringToNumber(v.s)[1] /\ StringToNumber(v.s)[2] > k
      [] v.t = "null" -> 0 > k
      [] OTHER -> FALSE

(* ------------------------------------------------------------- the model *)
\* OutputItem (interface OutputItem); style holds the CSS keys handleAnim
\* writes, "" for a key that is absent
NoStyle == [transition |-> "", background |-> "", transform |-> "", boxShadow |-> ""]

Item(type, content, styleStr) ==
    [type |-> type, content |-> content,
     id |-> IF type = "card" THEN Str("MainButton") ELSE Undefined,
     styleStr |-> styleStr, style |-> NoStyle]

Min(S) == CHOOSE x \in S : \A y \in S : x <= y

\* a variant that keeps one entry more of the previous list
addLogKeepMore(prev, entry) ==
    Append(IF Len(prev) > LogKeep + 1
           THEN SubSeq(prev, Len(prev) - LogKeep, Len(prev))
           ELSE prev, entry)

\* const addLog = (msg) => setLogs(prev => [...prev.slice(-99), msg])
addLog(prev, entry) ==
    Append(IF Len(prev) > LogKeep
           THEN SubSeq(prev, Len(prev) - LogKeep + 1, Len(prev))
           ELSE prev, entry)

(* ------------------------------------------------- [Output] and its payload *)
\* the text at i is "[tag] " followed by at least one more character
TagAt(msg, i, tag) ==
    /\ i + 4 <= Len(msg)
    /\ msg[i] = "[" /\ msg[i + 1] = tag /\ msg[i + 2] = "]" /\ msg[i + 3] = " "

\* msg.match(/\[tag\] (.+)/): the leftmost match, group 1 runs to the end
TagMatch(msg, tag) ==
    LET I == {i \in 1..Len(msg) : TagAt(msg, i, tag)}
    IN  IF I = {} THEN [matched |-> FALSE, rest |-> <<>>]
        ELSE [matched |-> TRUE, rest |-> SubSeq(msg, Min(I) + 4, Len(msg))]

\* content.match(/^\[(.*?) (.*?) '(.*?)'.*\]$/): the three lazy groups
componentMatch(c) ==
    LET n == Len(c)
        Quote(j) == {k \in (j + 2)..(n - 1) : c[k] = "'"}
        Open(i) == {j \in (i + 1)..(n - 2) :
                       c[j] = " " /\ c[j + 1] = "'" /\ Quote(j) # {}}
        Space == {i \in 2..(n - 1) : c[i] = " " /\ Open(i) # {}}
    IN  IF n >= 2 /\ c[1] = "[" /\ c[n] = "]" /\ Space # {}
        THEN LET i == Min(Space)
                 j == Min(Open(i))
                 k == Min(Quote(j))
             IN  [matched |-> TRUE,
                  s |-> Join(SubSeq(c, 2, i - 1)),
                  compType |-> Join(SubSeq(c, i + 1, j - 1)),
                  label |-> Join(SubSeq(c, j + 2, k - 1))]
        ELSE [matched |-> FALSE, s |-> "", compType |-> "", label |-> ""]

\* parseFloat reads the longest numeric prefix after leading white space:
\* the words of the model that start with a decimal literal, and with Infinity
FiniteLiteralPrefix == {"5", "10", "12", "20", "12abc"}
InfinityPrefix == {"Infinity"}

RECURSIVE TrimStart(_)
TrimStart(c) == IF c # <<>> /\ Head(c) = " " THEN TrimStart(Tail(c)) ELSE c

RECURSIVE TrimEnd(_)
TrimEnd(c) ==
    IF c # <<>> /\ c[Len(c)] = " " THEN TrimEnd(SubSeq(c, 1, Len(c) - 1)) ELSE c

parseFloat(c) ==
    LET t == TrimStart(c)
    IN  IF t = <<>> THEN "NaN"
        ELSE IF Head(t) \in FiniteLiteralPrefix THEN "finite"
        ELSE IF Head(t) \in InfinityPrefix THEN "Infinity"
        ELSE "NaN"

\* !isNaN(parseFloat(content)) && isFinite(parseFloat(content))
IsNumberContent(c) == parseFloat(c) # "NaN" /\ parseFloat(c) = "finite"

\* the item the [Output] branch appends for the captured payload
DecodeOutput(c) ==
    LET m == componentMatch(c)
    IN  IF m.matched THEN Item("card", m.label, Str(m.s))
        ELSE IF IsNumberContent(c) THEN Item("number", Join(c), Undefined)
        ELSE Item("text", Join(c), Undefined)

(* ------------------------------------------------------------ [Animation] *)
\* e.detail: what JSON.parse returned; a field the text does not have is
\* undefined, and a number or an array has none of the four fields
Detail(kind, target, property, value, duration) ==
    [kind |-> kind, target |-> target, property |-> property,
     value |-> value, duration |-> duration]

NoFields(kind) == Detail(kind, Undefined, Undefined, Undefined, Undefined)

Color == "color"
ColorJa == "\\u8272"
Scale == "scale"
Shadow == "shadow"
ShadowJa == "\\u5f71"

\* the JSON object texts of the model (written without white space, so each
\* is one word) and the value JSON.parse gives for each
JSONObjects ==
    << <<"{\"target\":\"MainButton\",\"property\":\"color\",\"value\":\"blue\",\"duration\":1}",
         Detail("object", Str("MainButton"), Str(Color), Str("blue"), Num(1))>>,
       <<"{\"target\":\"MainButton\",\"property\":\"color\",\"value\":\"RED\",\"duration\":2}",
         Detail("object", Str("MainButton"), Str(Color), Str("RED"), Num(2))>>,
       <<"{\"target\":\"MainButton\",\"property\":\"color\",\"value\":\"green\",\"duration\":3}",
         Detail("object", Str("MainButton"), Str(Color), Str("green"), Num(3))>>,
       <<"{\"target\":\"MainButton\",\"property\":\"\\u8272\",\"value\":\"\\u9752\\u8272\",\"duration\":1}",
         Detail("object", Str("MainButton"), Str(ColorJa), Str("\\u9752\\u8272"), Num(1))>>,
       <<"{\"target\":\"MainButton\",\"property\":\"color\",\"value\":5,\"duration\":1}",
         Detail("object", Str("MainButton"), Str(Color), Num(5), Num(1))>>,
       <<"{\"target\":\"MainButton\",\"property\":\"scale\",\"value\":\"2\",\"duration\":1}",
         Detail("object", Str("MainButton"), Str(Scale), Str("2"), Num(1))>>,
       <<"{\"target\":\"MainButton\",\"property\":\"shadow\",\"value\":\"20\",\"duration\":1}",
         Detail("object", Str("MainButton"), Str(Shadow), Str("20"), Num(1))>>,
       <<"{\"target\":\"MainButton\",\"property\":\"\\u5f71\",\"value\":10,\"duration\":2}",
         Detail("object", Str("MainButton"), Str(ShadowJa), Num(10), Num(2))>>,
       <<"{\"target\":\"Ghost\",\"property\":\"color\",\"value\":\"blue\",\"duration\":1}",
         Detail("object", Str("Ghost"), Str(Color), Str("blue"), Num(1))>>,
       <<"{\"target\":\"Ghost\",\"property\":\"color\",\"value\":5,\"duration\":1}",
         Detail("object", Str("Ghost"), Str(Color), Num(5), Num(1))>>,
       <<"{\"property\":\"scale\",\"value\":\"2\",\"duration\":1}",
         Detail("object", Undefined, Str(Scale), Str("2"), Num(1))>>,
       <<"{\"target\":\"MainButton\",\"property\":\"scale\",\"value\":\"2\"}",
         Detail("object", Str("MainButton"), Str(Scale), Str("2"), Undefined)>>,
       <<"{}", NoFields("object")>>,
       <<"{\"target\":\"MainButton\",\"property\":\"shadow\",\"value\":20,\"duration\":1}",
         Detail("object", Str("MainButton"), Str(Shadow), Num(20), Num(1))>>,
       <<"{\"target\":\"MainButton\",\"property\":\"shadow\",\"value\":\"10\",\"duration\":1}",
         Detail("object", Str("MainButton"), Str(Shadow), Str("10"), Num(1))>> >>

JSONNumbers == {"5", "10", "12", "20"}

JSONObjectIndex(w) == {i \in 1..Len(JSONObjects) : JSONObjects[i][1] = w}

\* JSON.parse(text): ok is FALSE where it throws SyntaxError
RECURSIVE IsJSON(_)
IsJSON(c) ==
    LET t == TrimEnd(TrimStart(c))
        n == Len(t)
    IN  \/ n = 1 /\ (JSONObjectIndex(t[1]) # {} \/ t[1] \in JSONNumbers \/ t[1] = "null")
        \/ /\ n >= 2 /\ t[1] = "[" /\ t[n] = "]"
           /\ \/ TrimStart(SubSeq(t, 2, n - 1)) = <<>>
              \/ IsJSON(SubSeq(t, 2, n - 1))

JSONParse(c) ==
    LET t == TrimEnd(TrimStart(c))
    IN  IF ~IsJSON(c) THEN [ok |-> FALSE, value |-> NoFields("undefined")]
        ELSE IF Len(t) > 1 THEN [ok |-> TRUE, value |-> NoFields("array")]
        ELSE IF t[1] = "null" THEN [ok |-> TRUE, value |-> NoFields("null")]
        ELSE IF t[1] \in JSONNumbers THEN [ok |-> TRUE, value |-> NoFields("number")]
        ELSE [ok |-> TRUE, value |-> JSONObjects[Min(JSONObjectIndex(t[1]))][2]]

\* String(e) of the SyntaxError JSON.parse throws, as V8 words it: the first
\* character that cannot continue a JSON text, then the whole (short) text
JSONSyntaxErrors ==
    << <<"not-json", "SyntaxError: Unexpected token 'o', \"not-json\" is not valid JSON">>,
       <<"[Output] hi", "SyntaxError: Unexpected token 'O', \"[Output] hi\" is not valid JSON">>,
       <<"hello", "SyntaxError: Unexpected token 'h', \"hello\" is not valid JSON">>,
       <<"hi", "SyntaxError: Unexpected token 'h', \"hi\" is not valid JSON">> >>

JSONSyntaxError(c) ==
    LET I == {i \in 1..Len(JSONSyntaxErrors) : JSONSyntaxErrors[i][1] = Join(c)}
    IN  IF I # {} THEN JSONSyntaxErrors[Min(I)][2]
        ELSE "SyntaxError: \"" \o Join(c) \o "\" is not valid JSON"

\* const { target, property, value, duration } = e.detail throws on null
DestructureThrows(detail) == detail.kind \in {"null", "undefined"}

BlueBackground == "rgba(0, 0, 255, 0.4)"
RedBackground == "rgba(255, 0, 0, 0.4)"
DeepShadow == "0 20px 40px rgba(0,0,0,0.5)"
ShallowShadow == "0 4px 6px rgba(0,0,0,0.1)"

\* a variant that takes every card for the target, whatever the target is
AnimTargetsAnyCard(item, target) ==
    \/ item.id = target
    \/ item.type = "card"

\* item.id === target || (target === 'MainButton' && item.type === 'card')
AnimTargets(item, target) ==
    \/ item.id = target
    \/ target = Str("MainButton") /\ item.type = "card"

\* value.includes(..) and value.toLowerCase() exist on strings only
ColorThrows(property, value) ==
    property \in {Str(ColorJa), Str(Color)} /\ value.t # "string"

\* the style the map callback builds for an item it targets
NewStyle(old, d) ==
    LET st == [old EXCEPT !.transition = "all " \o JSString(d.duration) \o "s ease"]
        v == d.value
    IN  IF d.property \in {Str(ColorJa), Str(Color)} THEN
            LET b1 == IF Includes(v.s, Blue) \/ ToLowerCase(v.s) = "blue"
                      THEN BlueBackground ELSE st.background
                b2 == IF Includes(v.s, Red) \/ ToLowerCase(v.s) = "red"
                      THEN RedBackground ELSE b1
            IN  [st EXCEPT !.background = b2]
        ELSE IF d.property \in {Str("\\u30b5\\u30a4\\u30ba"), Str(Scale)} THEN
            [st EXCEPT !.transform = "scale(" \o JSString(v) \o ")"]
        ELSE IF d.property \in {Str(ShadowJa), Str(Shadow)} THEN
            [st EXCEPT !.boxShadow = IF GreaterThan(v, ShadowThreshold)
                                     THEN DeepShadow ELSE ShallowShadow]
        ELSE st

\* prev.map(item => ...) of handleAnim; threw is TRUE where the callback
\* throws a TypeError, and then no new state is produced
handleAnim(prev, d) ==
    IF \E i \in 1..Len(prev) :
           AnimTargets(prev[i], d.target) /\ ColorThrows(d.property, d.value)
    THEN [threw |-> TRUE, outputs |-> prev]
    ELSE [threw |-> FALSE,
          outputs |-> [i \in 1..Len(prev) |->
              IF AnimTargets(prev[i], d.target)
              THEN [prev[i] EXCEPT !.style = NewStyle(prev[i].style, d)]
              ELSE prev[i]]]

AnimLog(d) ==
    "[LOG] [System] Animation: " \o JSString(d.target) \o "." \o JSString(d.property)
        \o " -> " \o JSString(d.value) \o " (" \o JSString(d.duration) \o "s)"

(* -------------------------------------------------------- [RegisterEvent] *)
Max(S) == CHOOSE x \in S : \A y \in S : x >= y

\* the last index of the run of non-space lexemes that starts at a
RunEnd(msg, a) == Max({e \in a..Len(msg) : \A k \in a..e : msg[k] # " "})

\* msg.match(/\[RegisterEvent\] (\S+) (\S+)/) succeeds at i
RegAt(msg, i) ==
    /\ TagAt(msg, i, "RegisterEvent")
    /\ msg[i + 4] # " "
    /\ RunEnd(msg, i + 4) + 2 <= Len(msg)
    /\ msg[RunEnd(msg, i + 4) + 2] # " "

regMatch(msg) ==
    LET I == {i \in 1..Len(msg) : RegAt(msg, i)}
    IN  IF I = {} THEN [matched |-> FALSE, id |-> "", name |-> ""]
        ELSE LET a == Min(I) + 4
                 b == RunEnd(msg, a) + 2
             IN  [matched |-> TRUE,
                  id |-> Join(SubSeq(msg, a, RunEnd(msg, a))),
                  name |-> Join(SubSeq(msg, b, RunEnd(msg, b)))]

(* ------------------------------------------------- console.info override *)
\* a variant that puts the new item first: [item, ...prev]
OutputBranchPrepend(prev, msg) ==
    LET m == TagMatch(msg, "Output")
    IN  IF m.matched THEN <<DecodeOutput(m.rest)>> \o prev ELSE prev

\* the [Output] branch: setOutputs(prev => [...prev, item])
OutputBranch(prev, msg) ==
    LET m == TagMatch(msg, "Output")
    IN  IF m.matched THEN Append(prev, DecodeOutput(m.rest)) ELSE prev

\* the [Animation] branch, on the outputs and logs the earlier branches left
AnimationBranch(outs, lg, msg) ==
    LET m == TagMatch(msg, "Animation")
        p == JSONParse(m.rest)
    IN  IF ~m.matched THEN [outputs |-> outs, logs |-> lg, threw |-> FALSE]
        ELSE IF ~p.ok THEN
            [outputs |-> outs, threw |-> FALSE,
             logs |-> addLog(lg, "[ERR] Failed to parse animation: " \o JSONSyntaxError(m.rest))]
        ELSE IF DestructureThrows(p.value) THEN
            [outputs |-> outs, logs |-> lg, threw |-> FALSE]
        ELSE [outputs |-> handleAnim(outs, p.value).outputs,
              threw |-> handleAnim(outs, p.value).threw,
              logs |-> addLog(lg, AnimLog(p.value))]

\* the [RegisterEvent] branch only logs
RegisterBranch(lg, msg) ==
    LET m == regMatch(msg)
    IN  IF m.matched
        THEN addLog(lg, "[LOG] [System] Registered event " \o m.name \o " on " \o m.id)
        ELSE lg

\* console.info(msg): the three branches run one after the other
consoleInfo(outs, lg, msg) ==
    LET lg1 == addLog(lg, "[INFO] " \o Join(msg))
        o1 == OutputBranch(outs, msg)
        a == AnimationBranch(o1, lg1, msg)
    IN  [outputs |-> a.outputs, threw |-> a.threw,
         logs |-> RegisterBranch(a.logs, msg)]

(* ------------------------------------------------------------ the inputs *)
Tagged(tag, payload) == <<"[", tag, "]", " ">> \o payload

CardLiteral(style, kind, label) ==
    <<"[", style, " ", kind, " ", "'", label, "'", "]">>

AnimationLines == {Tagged("Animation", <<JSONObjects[i][1]>>) : i \in 1..Len(JSONObjects)}

\* the lines the runtime is taken to print
Messages ==
    AnimationLines \cup
    { <<"hello">>,
      Tagged("Output", <<"hi">>),
      Tagged("Output", <<"12">>),
      Tagged("Output", <<"12abc">>),
      Tagged("Output", <<"Infinity">>),
      Tagged("Output", <<"NaN">>),
      Tagged("Output", CardLiteral("Red", "Button", "Go")),
      Tagged("Output", <<"[", "Red", " ", "'", "Go", "'", "]">>),
      Tagged("Output", <<>>),
      Tagged("Animation", <<"not-json">>),
      Tagged("Animation", <<"null">>),
      Tagged("Animation", <<"12">>),
      Tagged("Animation", <<"[", "]">>),
      Tagged("RegisterEvent", <<"MainButton", " ", "click">>),
      Tagged("RegisterEvent", <<"Ghost", " ", "click">>),
      Tagged("RegisterEvent", <<"MainButton">>),
      Tagged("Output", Tagged("RegisterEvent", <<"MainButton", " ", "click">>)),
      Tagged("Output", Tagged("Animation", <<JSONObjects[1][1]>>)),
      Tagged("Animation", Tagged("Output", <<"hi">>)) }

\* the lines of a well-formed session: draws, tweens and a handler
SceneMessages ==
    { Tagged("Output", CardLiteral("Red", "Button", "Go")),
      Tagged("Output", <<"hi">>),
      Tagged("Animation", <<JSONObjects[3][1]>>),
      Tagged("Animation", <<JSONObjects[9][1]>>),
      Tagged("RegisterEvent", <<"MainButton", " ", "click">>) }

\* the lines of a session that tweens the shadow of a card
TweenMessages ==
    { Tagged("Output", CardLiteral("Red", "Button", "Go")),
      Tagged("Animation", <<JSONObjects[7][1]>>),
      Tagged("Animation", <<JSONObjects[8][1]>>),
      Tagged("Animation", <<JSONObjects[15][1]>>) }

\* the line printed after k events of a session that fills the log: a card
\* after the first, else a registration that carries the number
LogLine(k) ==
    IF k = 1
    THEN Tagged("Output", CardLiteral("Red", "Button", "Go"))
    ELSE Tagged("RegisterEvent", <<"MainButton", " ", NatToString(k)>>)

(* -------------------------------------------------------------- the proxy *)
\* a variant for which only undefined is falsy
FalsyUndefinedOnly(v) == v.t = "undefined"

\* !v of JavaScript
Falsy(v) ==
    \/ v.t \in {"undefined", "null"}
    \/ v.t = "string" /\ v.s = ""
    \/ v.t = "number" /\ v.n = 0

\* what request.json() settles with: an object, null, or a rejection
RequestBodies == {"object", "null", "invalid"}
\* process.env.GEMINI_API_KEY
ApiKeys == {Undefined, Str(""), Str("k")}
\* body.model
ModelNames == {Undefined, Str("gemini-pro")}
\* response.status of the upstream answer; response.ok is 200..299
UpstreamStatuses == {200, 400, 429, 503}
ResponseOk(status) == status >= 200 /\ status <= 299
\* what response.text() resolves with
ErrorTexts == {"", "quota exceeded"}

\* the body of an upstream answer: how many links of the chain
\* data -> candidates -> [0] -> content -> parts -> [0] are objects
\* (0: data is null), and the text property of the last one
GeminiBody(links, text) == [links |-> links, text |-> text]
ChainLength == 6
UpstreamBodies ==
    {GeminiBody(k, Undefined) : k \in 0..ChainLength}
        \cup {GeminiBody(ChainLength, t) : t \in {Null, Str(""), Str("hi")}}

\* data.candidates?.[0]?.content?.parts?.[0]?.text -- reading a property of
\* null throws, every later link is optional
ExtractThrows(data) == data.links = 0
ExtractText(data) == IF data.links < ChainLength THEN Undefined ELSE data.text

\* `https://.../models/${model || 'gemini-2.0-flash'}:generateContent?key=${apiKey}`
GeminiUrl(model, apiKey) ==
    "https://generativelanguage.googleapis.com/v1beta/models/"
        \o (IF Falsy(model) THEN "gemini-2.0-flash" ELSE model.s)
        \o ":generateContent?key=" \o apiKey.s

\* NextResponse.json(body, {status}); the status defaults to 200
JsonResponse(kind, payload, status) == [kind |-> kind, payload |-> payload, status |-> status]

PostIdle ==
    [pc |-> "idle", n |-> 0, data |-> GeminiBody(0, Undefined), model |-> Undefined,
     body |-> "object", key |-> Undefined, fetched |-> <<>>, upstream |-> 0,
     rejected |-> FALSE, responses |-> <<>>]

\* return NextResponse.json(...)
Respond(p, response) ==
    [p EXCEPT !.pc = "answered", !.responses = Append(@, response)]

\* catch (e) { return NextResponse.json({ error: e.toString() }, { status: 500 }) }
Catch(p, e) == Respond([p EXCEPT !.rejected = TRUE], JsonResponse("error", e, 500))

(* ------------------------------------------------------------- the shader *)
\* f32 values are exact fractions n/d in lowest terms with d > 0
RECURSIVE GCD(_, _)
GCD(a, b) == IF b = 0 THEN a ELSE GCD(b, a % b)
Abs(k) == IF k < 0 THEN -k ELSE k
Rat(n, d) == LET g == GCD(Abs(n), d) IN [n |-> n \div g, d |-> d \div g]
RInt(k) == Rat(k, 1)
RAdd(a, b) ==
    LET g == GCD(a.d, b.d)
    IN  Rat(a.n * (b.d \div g) + b.n * (a.d \div g), (a.d \div g) * b.d)
RNeg(a) == [n |-> -a.n, d |-> a.d]
RSub(a, b) == RAdd(a, RNeg(b))
RMul(a, b) ==
    LET g1 == GCD(Abs(a.n), b.d)
        g2 == GCD(Abs(b.n), a.d)
    IN  Rat((a.n \div g1) * (b.n \div g2), (a.d \div g2) * (b.d \div g1))
\* a / b for b # 0
RDiv(a, b) == RMul(a, IF b.n < 0 THEN [n |-> -b.d, d |-> -b.n] ELSE [n |-> b.d, d |-> b.n])
RLess(a, b) == a.n * b.d < b.n * a.d
RLeq(a, b) == a.n * b.d <= b.n * a.d

\* vec4<f32> and its componentwise operators
Vec4(x, y, z, w) == <<x, y, z, w>>
VAdd(u, v) == <<RAdd(u[1], v[1]), RAdd(u[2], v[2]), RAdd(u[3], v[3]), RAdd(u[4], v[4])>>
VMul(u, v) == <<RMul(u[1], v[1]), RMul(u[2], v[2]), RMul(u[3], v[3]), RMul(u[4], v[4])>>
VScale(u, k) == <<RMul(u[1], k), RMul(u[2], k), RMul(u[3], k), RMul(u[4], k)>>
VZero == Vec4(RInt(0), RInt(0), RInt(0), RInt(0))

\* the effect bits of effect_flags
PulseBit == 1
ShakeBit == 2
RainbowBit == 4
AllFlags == 0..7

\* a variant that takes every effect as set
HasEffectAlways(flags, bit) == TRUE

\* (effect_flags & bit) != 0u
HasEffect(flags, bit) == (flags \div bit) % 2 = 1

\* sin(a) to four decimals, <<a, sin(a)>> in ten-thousandths, at the
\* arguments the stages pass: t * 20.0 + position.y * 0.1, t * 3.0,
\* t + uv.x, t + uv.x + 2.09 and t + uv.x + 4.18 for the times and
\* positions of the inputs below
SinTable ==
    { <<0, 0>>, <<5236, 5000>>, <<15708, 10000>>, <<20900, 8682>>,
      <<26136, 5038>>, <<36608, -4962>>, <<41800, -8616>>, <<47036, -10000>>,
      <<47124, -10000>>, <<57508, -5076>>, <<104720, -8660>>, <<200000, 9129>>,
      <<300000, -9880>>, <<304720, -8099>>, <<314160, 1>>, <<400000, 7451>>,
      <<404720, 3604>>, <<504720, 2051>>, <<514160, 9130>>, <<600000, -3048>>,
      <<614160, -9880>>, <<704720, 9772>>, <<714160, 7451>>, <<914160, -3049>> }

\* the builtin sin at an argument of the table
sin(a) == Rat((CHOOSE e \in SinTable : e[1] = a.n * (10000 \div a.d))[2], 10000)

\* struct Globals
Globals(screen_size, time) == [screen_size |-> screen_size, time |-> time]
\* struct VertexInput
VertexInput(position, color, uv, effect_flags) ==
    [position |-> position, color |-> color, uv |-> uv, effect_flags |-> effect_flags]

shake_amp == RInt(5)

\* a variant that does not flip Y
ndc_yNoFlip(pos, globals) ==
    RSub(RMul(RDiv(pos[2], globals.screen_size[2]), RInt(2)), RInt(1))

\* let ndc_x = (pos.x / globals.screen_size.x) * 2.0 - 1.0
ndc_x(pos, globals) ==
    RSub(RMul(RDiv(pos[1], globals.screen_size[1]), RInt(2)), RInt(1))
\* let ndc_y = (1.0 - (pos.y / globals.screen_size.y)) * 2.0 - 1.0
ndc_y(pos, globals) ==
    RSub(RMul(RSub(RInt(1), RDiv(pos[2], globals.screen_size[2])), RInt(2)), RInt(1))

\* fn vs_main(model: VertexInput) -> VertexOutput
vs_main(model, globals) ==
    LET pos == IF HasEffect(model.effect_flags, ShakeBit)
               THEN <<RAdd(model.position[1],
                           RMul(sin(RAdd(RMul(globals.time, RInt(20)),
                                         RMul(model.position[2], Rat(1, 10)))),
                                shake_amp)),
                      model.position[2]>>
               ELSE model.position
    IN  [color |-> model.color,
         uv |-> model.uv,
         effect_flags |-> model.effect_flags,
         clip_position |-> Vec4(ndc_x(pos, globals), ndc_y(pos, globals), RInt(0), RInt(1)),
         local_pos |-> model.uv]

\* a variant with twice the amplitude
pulseDouble(globals) == RMul(RAdd(sin(RMul(globals.time, RInt(3))), RInt(1)), Rat(4, 10))

\* let pulse = (sin(t * 3.0) + 1.0) * 0.2
pulse(globals) == RMul(RAdd(sin(RMul(globals.time, RInt(3))), RInt(1)), Rat(2, 10))

\* sin(t + in.uv.x + step) * 0.5 + 0.5, where step is 0 for r, 2.09 for g
\* and 4.18 for b
RainbowChannel(in, globals, step) ==
    RAdd(RMul(sin(RAdd(RAdd(globals.time, in.uv[1]), step)), Rat(5, 10)), Rat(5, 10))

\* vec4<f32>(r, g, b, 1.0)
Rainbow(in, globals) ==
    Vec4(RainbowChannel(in, globals, RInt(0)),
         RainbowChannel(in, globals, Rat(209, 100)),
         RainbowChannel(in, globals, Rat(418, 100)),
         RInt(1))

\* a variant that applies Rainbow before Pulse
fs_mainRainbowFirst(in, texel, globals) ==
    LET base == VMul(texel, in.color)
        c1 == IF HasEffect(in.effect_flags, RainbowBit)
              THEN VMul(base, Rainbow(in, globals))
              ELSE base
    IN  IF HasEffect(in.effect_flags, PulseBit)
        THEN VAdd(c1, Vec4(pulse(globals), pulse(globals), pulse(globals), RInt(0)))
        ELSE c1

\* fn fs_main(in: VertexOutput); texel is textureSample(t_diffuse, s_diffuse, in.uv)
fs_main(in, texel, globals) ==
    LET base == VMul(texel, in.color)
        c1 == IF HasEffect(in.effect_flags, PulseBit)
              THEN VAdd(base, Vec4(pulse(globals), pulse(globals), pulse(globals), RInt(0)))
              ELSE base
    IN  IF HasEffect(in.effect_flags, RainbowBit)
        THEN VMul(c1, Rainbow(in, globals))
        ELSE c1

\* let weight = array<f32, 5>(0.227027, 0.1945946, 0.1216216, 0.054054, 0.016216)
weight ==
    <<Rat(2270270, 10000000), Rat(1945946, 10000000), Rat(1216216, 10000000),
      Rat(540540, 10000000), Rat(162160, 10000000)>>

\* the nine taps of a blur pass in the order of the source: offsets
\* 0, +1, -1, +2, -2, +3, -3, +4, -4 along the axis of the pass
TapOffsets == <<0, 1, -1, 2, -2, 3, -3, 4, -4>>

\* fs_blur_h and fs_blur_v: sample(k) is the texel at offset k texels along
\* the axis of the pass; color starts at vec4(0.0) and takes one tap a line
RECURSIVE BlurTaps(_, _)
BlurTaps(sample, k) ==
    IF k = 0 THEN VZero
    ELSE VAdd(BlurTaps(sample, k - 1),
              VScale(sample[TapOffsets[k]], weight[Abs(TapOffsets[k]) + 1]))

fs_blur_h(sample) == BlurTaps(sample, Len(TapOffsets))
fs_blur_v(sample) == BlurTaps(sample, Len(TapOffsets))

\* inputs of the shader stages
ScreenSizes == {<<RInt(600), RInt(400)>>, <<RInt(400), RInt(600)>>}
Corners(screen_size) ==
    {<<x, y>> : x \in {RInt(0), RDiv(screen_size[1], RInt(2)), screen_size[1]},
                y \in {RInt(0), RDiv(screen_size[2], RInt(2)), screen_size[2]}}
\* globals.time of a frame: 0, and the times at which sin(t * 3.0) is 1 and -1
Times == {RInt(0), Rat(5236, 10000), Rat(15708, 10000)}
White == Vec4(RInt(1), RInt(1), RInt(1), RInt(1))
Grey == Vec4(Rat(1, 2), Rat(1, 2), Rat(1, 2), RInt(1))
Texels == {White, Vec4(Rat(1, 2), Rat(1, 4), RInt(0), Rat(1, 2))}
Colors == {Vec4(RInt(1), Rat(1, 2), RInt(0), RInt(1)), Vec4(Rat(1, 2), Rat(1, 2), Rat(1, 2), Rat(1, 2))}
Origin == <<RInt(0), RInt(0)>>

\* the texels a blur pass reads, by their offset from the fragment
Flat(c) == [k \in -4..4 |-> c]
Impulse == [k \in -4..4 |-> IF k = 0 THEN White ELSE VZero]
Step == [k \in -4..4 |-> IF k < 0 THEN VZero ELSE White]
Textures == {Flat(White), Flat(Grey), Flat(VZero), Impulse, Step}

NoPrev == [position |-> Origin, effect_flags |-> 0, clip_position |-> VZero, valid |-> FALSE]

GpuIdle ==
    [prev |-> NoPrev,
     model |-> VertexInput(Origin, VZero, Origin, 0),
     color |-> VZero,
     globals |-> Globals(<<RInt(600), RInt(400)>>, RInt(0)),
     texel |-> VZero,
     sample |-> Flat(VZero),
     stage |-> "idle",
     out |-> vs_main(VertexInput(Origin, VZero, Origin, 0),
                     Globals(<<RInt(600), RInt(400)>>, RInt(0)))]

\* args.join(' ')
RECURSIVE JoinArgs(_)
JoinArgs(args) ==
    IF Len(args) <= 1 THEN Join(args)
    ELSE Head(args) \o " " \o JoinArgs(Tail(args))

\* what other code of the page and the runtime pass to console.log and to
\* console.error, and the details of events dispatched on window directly
LogArgs == {<<"x">>}
ErrorArgs == {<<"Failed", "y">>}
DispatchedDetails == {1}
DispatchedDecode == {1, 0}
DispatchedTweens == {14}

StartMessage == <<"Starting", " ", "Wasm", " ", "execution...">>

Runs == 1..MaxRuns


\* last records the operation of the latest step and its input; lines holds
\* the printed lines that were applied since the last reset
Last(op, msg, arg) == [op |-> op, msg |-> msg, arg |-> arg]

(* ------------------------------------------------------------ the actions *)
Init ==
    /\ outputs = <<>>
    /\ logs = <<>>
    /\ wasmRef = 0
    /\ pc = [r \in Runs |-> "idle"]
    /\ outbound = <<>>
    /\ crashed = FALSE
    /\ events = 0
    /\ lines = <<>>
    /\ last = Last("init", <<>>, 0)
    /\ gpu = GpuIdle
    /\ post = PostIdle
    /\ history = <<>>

\* handleRun up to its first await: both states are cleared, then the
\* console.info of the start line goes through the override
handleRun(r) ==
    /\ ~crashed
    /\ pc[r] = "idle"
    /\ \A q \in Runs : q < r => pc[q] # "idle"
    /\ outputs' = <<>>
    /\ logs' = consoleInfo(<<>>, <<>>, StartMessage).logs
    /\ pc' = [pc EXCEPT ![r] = "import"]
    /\ last' = Last("run", StartMessage, r)
    /\ events' = events + 1
    /\ lines' = <<>>
    /\ history' = <<"[INFO] " \o Join(StartMessage)>>
    /\ UNCHANGED <<wasmRef, outbound, crashed, post, gpu>>

\* await import(...) resolved.  handleRun is a plain async function: its
\* continuations run whether or not the page is still up
ImportOk(r) ==
    /\ pc[r] = "import"
    /\ pc' = [pc EXCEPT ![r] = "init"]
    /\ last' = Last("import", <<>>, r)
    /\ UNCHANGED <<outputs, logs, wasmRef, outbound, crashed, events, lines, history, post, gpu>>

\* await wasm.default() resolved: wasmRef.current = wasm, run_script is called
InitOk(r) ==
    /\ pc[r] = "init"
    /\ wasmRef' = r
    /\ pc' = [pc EXCEPT ![r] = "script"]
    /\ last' = Last("loaded", <<>>, r)
    /\ UNCHANGED <<outputs, logs, outbound, crashed, events, lines, history, post, gpu>>

\* await wasm.run_script(...) resolved
ScriptOk(r) ==
    /\ pc[r] = "script"
    /\ pc' = [pc EXCEPT ![r] = "done"]
    /\ last' = Last("finished", <<>>, r)
    /\ UNCHANGED <<outputs, logs, wasmRef, outbound, crashed, events, lines, history, post, gpu>>

\* one of the three awaits rejected: catch (inner) calls console.error, which
\* is the override while the page is up and the browser's own after the
\* cleanup of the effect has restored it
LoadFail(r) ==
    /\ pc[r] \in {"import", "init", "script"}
    /\ IF crashed
       THEN UNCHANGED <<logs, history>>
       ELSE /\ logs' = addLog(logs, "[ERR] Failed to load Wasm: Error")
            /\ history' = Append(history, "[ERR] Failed to load Wasm: Error")
    /\ pc' = [pc EXCEPT ![r] = IF pc[r] = "script" THEN "done" ELSE "failed"]
    /\ last' = Last("failed", <<>>, r)
    /\ UNCHANGED <<outputs, wasmRef, outbound, crashed, events, lines, post, gpu>>

\* the code that can be running and calling console: other code of the page
\* (0), and the runtime of every run whose run_script has been called
Printers == {0} \cup {r \in Runs : pc[r] \in {"script", "done"}}

\* console.info(msg) called by c while the page is up: the override
\* does not look at who calls it or at the state of a run.  A TypeError in
\* the state updater fails the render, and nothing of the line is committed
Emit(c, msg) ==
    /\ ~crashed
    /\ events' = events + 1
    /\ LET res == consoleInfo(outputs, logs, msg)
       IN  IF res.threw
           THEN crashed' = TRUE /\ UNCHANGED <<outputs, logs, lines, history>>
           ELSE /\ outputs' = res.outputs
                /\ logs' = res.logs
                /\ lines' = Append(lines, msg)
                /\ history' = history \o consoleInfo(outputs, <<>>, msg).logs
                /\ crashed' = FALSE
    /\ last' = Last("info", msg, c)
    /\ UNCHANGED <<wasmRef, pc, outbound, post, gpu>>

\* onClick of the overlay element of outputs[i]
Click(i) ==
    /\ ~crashed
    /\ i \in 1..Len(outputs)
    /\ outputs[i].type = "card"
    /\ events' = events + 1
    /\ IF wasmRef # 0
       THEN /\ logs' = addLog(logs, "[LOG] Click sent to WASM")
            /\ history' = Append(history, "[LOG] Click sent to WASM")
            /\ outbound' = Append(outbound,
                   [wasm |-> wasmRef,
                    id |-> IF outputs[i].id \in {Undefined, Str("")}
                           THEN "MainButton" ELSE outputs[i].id.s,
                    event |-> "click"])
       ELSE UNCHANGED <<logs, outbound, history>>
    /\ last' = Last("click", <<>>, i)
    /\ UNCHANGED <<outputs, wasmRef, pc, crashed, lines, post, gpu>>

\* console.log(...args) called by the runtime or by other code of the page
ConsoleLog(args) ==
    /\ ~crashed
    /\ events' = events + 1
    /\ logs' = addLog(logs, "[LOG] " \o JoinArgs(args))
    /\ history' = Append(history, "[LOG] " \o JoinArgs(args))
    /\ last' = Last("log", args, 0)
    /\ UNCHANGED <<outputs, wasmRef, pc, outbound, crashed, lines, post, gpu>>

\* console.error(...args) called by the runtime or by other code of the page
ConsoleError(args) ==
    /\ ~crashed
    /\ events' = events + 1
    /\ logs' = addLog(logs, "[ERR] " \o JoinArgs(args))
    /\ history' = Append(history, "[ERR] " \o JoinArgs(args))
    /\ last' = Last("error", args, 0)
    /\ UNCHANGED <<outputs, wasmRef, pc, outbound, crashed, lines, post, gpu>>

\* window.dispatchEvent(new CustomEvent('agn-animation', {detail})) by other
\* code than the console.info override: detail is that of JSONObjects[k], or
\* null for k = 0, where the listener throws before it does anything.
\* lines takes the line that carries the same detail
DispatchAnimation(k) ==
    /\ ~crashed
    /\ events' = events + 1
    /\ last' = Last("dispatch", IF k = 0 THEN <<>> ELSE <<JSONObjects[k][1]>>, k)
    /\ IF k = 0
       THEN UNCHANGED <<outputs, logs, history, lines, crashed>>
       ELSE LET res == handleAnim(outputs, JSONObjects[k][2])
            IN  IF res.threw
                THEN crashed' = TRUE /\ UNCHANGED <<outputs, logs, history, lines>>
                ELSE /\ outputs' = res.outputs
                     /\ logs' = addLog(logs, AnimLog(JSONObjects[k][2]))
                     /\ history' = Append(history, AnimLog(JSONObjects[k][2]))
                     /\ lines' = Append(lines, Tagged("Animation", <<JSONObjects[k][1]>>))
                     /\ crashed' = FALSE
    /\ UNCHANGED <<wasmRef, pc, outbound, post, gpu>>

Next ==
    \/ \E r \in Runs : events < MaxEvents /\ handleRun(r)
    \/ \E r \in Runs : ImportOk(r)
    \/ \E r \in Runs : InitOk(r)
    \/ \E r \in Runs : ScriptOk(r)
    \/ \E r \in Runs : LoadFail(r)
    \/ \E c \in Printers, msg \in SceneMessages : events < MaxEvents /\ Emit(c, msg)
    \/ \E i \in 1..Len(outputs) : events < MaxEvents /\ Click(i)
    \/ \E k \in DispatchedDetails : events < MaxEvents /\ DispatchAnimation(k)

Spec == Init /\ [][Next]_vars

\* the same program fed every line of Messages, malformed ones included
NextDecode ==
    \/ \E r \in Runs : events < MaxDecodeEvents /\ handleRun(r)
    \/ \E r \in Runs : ImportOk(r)
    \/ \E r \in Runs : InitOk(r)
    \/ \E r \in Runs : ScriptOk(r)
    \/ \E r \in Runs : LoadFail(r)
    \/ \E c \in Printers, msg \in Messages : events < MaxDecodeEvents /\ Emit(c, msg)
    \/ \E i \in 1..Len(outputs) : events < MaxDecodeEvents /\ Click(i)
    \/ \E args \in LogArgs : events < MaxDecodeEvents /\ ConsoleLog(args)
    \/ \E args \in ErrorArgs : events < MaxDecodeEvents /\ ConsoleError(args)
    \/ \E k \in DispatchedDecode : events < MaxDecodeEvents /\ DispatchAnimation(k)

SpecDecode == Init /\ [][NextDecode]_vars

\* the same program fed the lines of TweenMessages
NextTween ==
    \/ \E r \in Runs : events < MaxEvents /\ handleRun(r)
    \/ \E r \in Runs : ImportOk(r)
    \/ \E r \in Runs : InitOk(r)
    \/ \E r \in Runs : ScriptOk(r)
    \/ \E r \in Runs : LoadFail(r)
    \/ \E c \in Printers, msg \in TweenMessages : events < MaxEvents /\ Emit(c, msg)
    \/ \E i \in 1..Len(outputs) : events < MaxEvents /\ Click(i)
    \/ \E k \in DispatchedTweens : events < MaxEvents /\ DispatchAnimation(k)

SpecTween == Init /\ [][NextTween]_vars

\* the same program in a session long enough to fill the log panel: runs,
\* failures and the calls of other code fall among the first MaxLogPrefix
\* events, lines go on
NextLog ==
    \/ \E r \in Runs : events < MaxLogPrefix /\ handleRun(r)
    \/ \E r \in Runs : ImportOk(r)
    \/ \E r \in Runs : InitOk(r)
    \/ \E r \in Runs : ScriptOk(r)
    \/ \E r \in Runs : events < MaxLogPrefix /\ LoadFail(r)
    \/ \E c \in Printers : events < MaxLogEvents /\ Emit(c, LogLine(events))
    \/ \E args \in LogArgs : events < MaxLogPrefix /\ ConsoleLog(args)
    \/ \E args \in ErrorArgs : events < MaxLogPrefix /\ ConsoleError(args)

SpecLog == Init /\ [][NextLog]_vars

(* ------------------------------------------------------ the proxy's steps *)
Bridge == <<outputs, logs, wasmRef, pc, outbound, crashed, events, lines, last, history>>

\* POST(request) is invoked; the handler awaits request.json()
Receive(body, key, model) ==
    /\ post.pc \in {"idle", "answered"}
    /\ post' = [PostIdle EXCEPT !.pc = "json", !.n = post.n + 1, !.body = body,
                                !.key = key, !.model = model]
    /\ UNCHANGED <<Bridge, gpu>>

\* request.json() settles: destructuring, the key check and the call of fetch
JsonSettles ==
    /\ post.pc = "json"
    /\ post' = CASE post.body = "invalid" ->
                        Catch(post, "SyntaxError: Unexpected end of JSON input")
                 [] post.body = "null" ->
                        Catch(post, "TypeError: Cannot destructure property 'prompt' of 'body' as it is null.")
                 [] Falsy(post.key) ->
                        Respond(post, JsonResponse("error",
                            "Server configuration error: GEMINI_API_KEY not set", 500))
                 [] OTHER ->
                        [post EXCEPT !.pc = "fetch",
                                     !.fetched = Append(@, GeminiUrl(post.model, post.key))]
    /\ UNCHANGED <<Bridge, gpu>>

\* fetch(url, ...) rejects
FetchRejects ==
    /\ post.pc = "fetch"
    /\ post' = Catch(post, "TypeError: fetch failed")
    /\ UNCHANGED <<Bridge, gpu>>

\* fetch(url, ...) resolves: the handler awaits response.text() or response.json()
FetchResolves(status) ==
    /\ post.pc = "fetch"
    /\ post' = [post EXCEPT !.upstream = status,
                            !.pc = IF ~ResponseOk(status) THEN "text" ELSE "data"]
    /\ UNCHANGED <<Bridge, gpu>>

\* response.text() resolves
TextResolves(errorText) ==
    /\ post.pc = "text"
    /\ post' = Respond(post, JsonResponse("error", errorText, post.upstream))
    /\ UNCHANGED <<Bridge, gpu>>

\* response.text() or response.json() rejects
ReadRejects ==
    /\ post.pc \in {"text", "data"}
    /\ post' = Catch(post, "TypeError: terminated")
    /\ UNCHANGED <<Bridge, gpu>>

\* response.json() resolves
DataResolves(data) ==
    /\ post.pc = "data"
    /\ post' = IF ExtractThrows(data)
               THEN Catch([post EXCEPT !.data = data],
                          "TypeError: Cannot read properties of null (reading 'candidates')")
               ELSE IF Falsy(ExtractText(data))
               THEN Respond([post EXCEPT !.data = data],
                            JsonResponse("error", "No text in response", 400))
               ELSE Respond([post EXCEPT !.data = data],
                            JsonResponse("text", ExtractText(data).s, 200))
    /\ UNCHANGED <<Bridge, gpu>>

NextProxy ==
    \/ \E body \in RequestBodies, key \in ApiKeys, model \in ModelNames :
           post.n < MaxRequests /\ Receive(body, key, model)
    \/ JsonSettles
    \/ FetchRejects
    \/ \E status \in UpstreamStatuses : FetchResolves(status)
    \/ \E errorText \in ErrorTexts : TextResolves(errorText)
    \/ ReadRejects
    \/ \E data \in UpstreamBodies : DataResolves(data)

SpecProxy == Init /\ [][NextProxy]_vars

(* ------------------------------------------------------ the shader stages *)
\* One render pass: the vertex stage on two vertices of a quad, the
\* fragment stage on a fragment of it, then the two blur passes.
\* The vertex stage runs on one vertex; prev is the vertex before it
VsMain(model, globals) ==
    /\ \/ gpu.stage = "idle"
       \/ /\ gpu.stage = "vs" /\ ~gpu.prev.valid
          /\ gpu.globals = globals
          /\ gpu.model.effect_flags = model.effect_flags
          /\ gpu.model.color = model.color
    /\ gpu' = [GpuIdle EXCEPT
                 !.stage = "vs", !.globals = globals, !.model = model,
                 !.out = vs_main(model, globals),
                 !.prev = IF gpu.stage = "vs"
                          THEN [position |-> gpu.model.position,
                                effect_flags |-> gpu.model.effect_flags,
                                clip_position |-> gpu.out.clip_position,
                                valid |-> TRUE]
                          ELSE NoPrev]
    /\ UNCHANGED <<Bridge, post>>

\* the fragment stage runs on one fragment of the quad: color, uv and
\* effect_flags come from the vertex stage, texel from the bound texture,
\* globals are those of the frame
FsMain(texel) ==
    /\ gpu.stage = "vs" /\ gpu.prev.valid
    /\ LET in == [gpu.out EXCEPT !.clip_position = VZero]
           globals == gpu.globals
       IN  gpu' = [GpuIdle EXCEPT
                     !.stage = "fs", !.globals = globals,
                     !.model = VertexInput(Origin, in.color, in.uv, in.effect_flags),
                     !.out = in, !.texel = texel,
                     !.color = fs_main(in, texel, globals)]
    /\ UNCHANGED <<Bridge, post>>

\* the horizontal blur pass runs on one fragment of the rendered frame
BlurH(sample) ==
    /\ gpu.stage = "fs"
    /\ gpu' = [GpuIdle EXCEPT !.stage = "blur_h", !.sample = sample,
                              !.color = fs_blur_h(sample)]
    /\ UNCHANGED <<Bridge, post>>

\* the vertical blur pass runs on one fragment of the intermediate target
BlurV(sample) ==
    /\ gpu.stage = "blur_h"
    /\ gpu' = [GpuIdle EXCEPT !.stage = "blur_v", !.sample = sample,
                              !.color = fs_blur_v(sample)]
    /\ UNCHANGED <<Bridge, post>>

NextShader ==
    \/ \E size \in ScreenSizes, time \in Times, flags \in AllFlags, color \in Colors :
         \E position \in Corners(size) :
           VsMain(VertexInput(position, color, Origin, flags), Globals(size, time))
    \/ \E texel \in Texels : FsMain(texel)
    \/ \E sample \in Textures : BlurH(sample)
    \/ \E sample \in Textures : BlurV(sample)

SpecShader == Init /\ [][NextShader]_vars

(* ------------------------------------------------------------ properties *)
\* the events one line produces
Drew(msg) == TagMatch(msg, "Output").matched
Dispatched(msg) ==
    TagMatch(msg, "Animation").matched /\ JSONParse(TagMatch(msg, "Animation").rest).ok
Registered(msg) == regMatch(msg).matched
EventsOf(msg) ==
    {e \in {"Draw", "Animate", "RegisterHandler"} :
        \/ e = "Draw" /\ Drew(msg)
        \/ e = "Animate" /\ Dispatched(msg)
        \/ e = "RegisterHandler" /\ Registered(msg)}

\* the record an [Animation] line carries, where it parses
AnimDetail(msg) == JSONParse(TagMatch(msg, "Animation").rest).value

\* a line "[Animation] <payload>" whose payload JSON.parse rejects
UnparseableAnimation(msg) ==
    TagAt(msg, 1, "Animation") /\ ~JSONParse(TagMatch(msg, "Animation").rest).ok

\* C1: a line "[Animation] <payload>" whose payload does not parse leaves
\* the drawables and their style overrides as they were before the line
C1_UnparseableAnimationKeepsScene ==
    [][(last'.op = "info" /\ UnparseableAnimation(last'.msg)) => outputs' = outputs]_vars

\* the record shape {target, property, value, duration}: an object with a
\* string target and property, a numeric duration, and a value that is a
\* string, or a number where the property is not a colour
HasRecordShape(d) ==
    /\ d.kind = "object"
    /\ d.target.t = "string" /\ d.property.t = "string"
    /\ d.duration.t = "number"
    /\ d.value.t \in {"string", "number"}
    /\ d.property \in {Str(Color), Str(ColorJa)} => d.value.t = "string"

\* a line that carries the [Animation] tag alone, whose payload parses but
\* has not the record shape
ShapeMismatch(msg) ==
    /\ TagAt(msg, 1, "Animation")
    /\ EventsOf(msg) = {"Animate"}
    /\ ~HasRecordShape(AnimDetail(msg))

\* C2: an [Animation] payload that parses but has not the record shape is
\* discarded: the line changes no drawable and no style, and fails nothing
C2_ShapeMismatchDiscarded ==
    [][(last'.op = "info" /\ ShapeMismatch(last'.msg))
          => (outputs' = outputs /\ ~crashed')]_vars

\* C3: one message produces at most one of Draw, Animate, RegisterHandler
C3_AtMostOneEventPerLine ==
    last.op = "info" => Cardinality(EventsOf(last.msg)) <= 1

\* the whole text is a finite real number: one decimal literal and nothing else
DecimalLiterals == {"5", "10", "12", "20"}
IsFiniteNumberText(c) ==
    LET t == TrimEnd(TrimStart(c)) IN Len(t) = 1 /\ t[1] \in DecimalLiterals

\* the kind the payload of an [Output] line is to be decoded to
KindOf(c) ==
    IF componentMatch(c).matched THEN "card"
    ELSE IF IsFiniteNumberText(c) THEN "number"
    ELSE "text"

\* C4: an [Output] line appends exactly one drawable, a card for a component
\* literal, else a number where the whole payload is a finite number, else text
C4_OutputKind ==
    (last.op = "info" /\ ~crashed /\ TagAt(last.msg, 1, "Output"))
        => /\ outputs # <<>>
           /\ outputs[Len(outputs)].type = KindOf(TagMatch(last.msg, "Output").rest)

\* the drawables the lines ls draw, in the order of the lines
RECURSIVE DrawsOf(_)
DrawsOf(ls) ==
    IF ls = <<>> THEN <<>>
    ELSE IF Drew(Head(ls))
         THEN <<DecodeOutput(TagMatch(Head(ls), "Output").rest)>> \o DrawsOf(Tail(ls))
         ELSE DrawsOf(Tail(ls))

SameDrawable(a, b) ==
    /\ a.type = b.type /\ a.content = b.content
    /\ a.id = b.id /\ a.styleStr = b.styleStr

\* C5: the drawables of the scene are those of the [Output] lines since the
\* last reset, one for one and in the order in which the lines arrived
C5_DrawsInArrivalOrder ==
    /\ Len(outputs) = Len(DrawsOf(lines))
    /\ \A i \in 1..Len(outputs) : SameDrawable(outputs[i], DrawsOf(lines)[i])

C5_Witness ==
    /\ Len(outputs) >= 2
    /\ ~SameDrawable(outputs[1], outputs[2])
    /\ \E i \in 1..Len(outputs) : outputs[i].style # NoStyle

\* C6: no two live drawables have the same id
C6_UniqueIds ==
    \A i, j \in 1..Len(outputs) :
        (i # j /\ outputs[i].id # Undefined) => outputs[i].id # outputs[j].id

\* the style key that holds the override of a property
Override(st, property) ==
    IF property \in {Str(ColorJa), Str(Color)} THEN st.background
    ELSE IF property \in {Str("\\u30b5\\u30a4\\u30ba"), Str(Scale)} THEN st.transform
    ELSE IF property \in {Str(ShadowJa), Str(Shadow)} THEN st.boxShadow
    ELSE ""

\* the last two applied lines are Animate events for the same pair
TwoTweensSamePair ==
    LET n == Len(lines)
    IN  /\ n >= 2
        /\ EventsOf(lines[n - 1]) = {"Animate"} /\ EventsOf(lines[n]) = {"Animate"}
        /\ HasRecordShape(AnimDetail(lines[n - 1])) /\ HasRecordShape(AnimDetail(lines[n]))
        /\ AnimDetail(lines[n - 1]).target = AnimDetail(lines[n]).target
        /\ AnimDetail(lines[n - 1]).property = AnimDetail(lines[n]).property

\* C7: after two Animate events for one (target, property) the drawable holds
\* the override of the second alone, with the value and duration of the second
C7_SecondTweenReplacesFirst ==
    TwoTweensSamePair =>
        LET d == AnimDetail(lines[Len(lines)])
        IN  \A i \in 1..Len(outputs) :
                AnimTargets(outputs[i], d.target) =>
                    /\ Override(outputs[i].style, d.property)
                           = Override(NewStyle(NoStyle, d), d.property)
                    /\ outputs[i].style.transition = NewStyle(NoStyle, d).transition

\* C8: every step but the reset, a malformed line included, keeps every
\* drawable in its place in a scene that is still on the page
C8_OnlyResetRemoves ==
    [][last'.op # "run" =>
          /\ ~crashed'
          /\ Len(outputs') >= Len(outputs)
          /\ \A i \in 1..Len(outputs) : SameDrawable(outputs'[i], outputs[i])]_vars

\* an Animate whose target id is the id of no drawable of outs
UnknownTarget(outs, msg) ==
    /\ Dispatched(msg)
    /\ AnimDetail(msg).target.t = "string"
    /\ \A i \in 1..Len(outs) : outs[i].id # AnimDetail(msg).target

\* C9: an Animate for an id no drawable has, and a RegisterEvent, change
\* nothing: beyond what a Draw of the same line appends the scene is the same
C9_UnknownTargetNoOp ==
    [][(/\ last'.op = "info"
        /\ \/ UnknownTarget(OutputBranch(outputs, last'.msg), last'.msg)
           \/ (Registered(last'.msg) /\ ~Dispatched(last'.msg)))
          => (outputs' = OutputBranch(outputs, last'.msg) /\ ~crashed')]_vars

C9_Witness ==
    /\ last.op = "info"
    /\ UnknownTarget(outputs, last.msg)
    /\ \E i \in 1..Len(outputs) : outputs[i].type = "card"
    /\ \E i \in 1..Len(outputs) : outputs[i].type = "text"

\* a [RegisterEvent] line for the id of drawable i was applied
HandlerRegistered(i) ==
    \E k \in 1..Len(lines) :
        Registered(lines[k]) /\ Str(regMatch(lines[k]).id) = outputs[i].id

\* C10: once a handler is registered for a drawn drawable, a click on its
\* overlay element pushes exactly one (id, click) event, with its id
C10_ClickReachesRuntime ==
    [][(last'.op = "click" /\ HandlerRegistered(last'.arg))
          => /\ Len(outbound') = Len(outbound) + 1
             /\ SubSeq(outbound', 1, Len(outbound)) = outbound
             /\ outbound'[Len(outbound')].id = outputs[last'.arg].id.s
             /\ outbound'[Len(outbound')].event = "click"]_vars

\* the latest applied line is a well-formed Animate on one of properties
LatestTween(properties) ==
    /\ lines # <<>>
    /\ EventsOf(lines[Len(lines)]) = {"Animate"}
    /\ HasRecordShape(AnimDetail(lines[Len(lines)]))
    /\ AnimDetail(lines[Len(lines)]).property \in properties

LatestDetail == AnimDetail(lines[Len(lines)])

NamesBlue(v) == Includes(v.s, Blue) \/ ToLowerCase(v.s) = "blue"
NamesRed(v) == Includes(v.s, Red) \/ ToLowerCase(v.s) = "red"

\* C11: after an Animate on color that no later Animate follows, the color
\* override of the drawable is the destination the value names, for every
\* value: an override is set, blue for blue, red for red, and neither of the
\* two for any other color
C11_ColorReachesDestination ==
    LatestTween({Str(Color), Str(ColorJa)}) =>
        \A i \in 1..Len(outputs) :
            outputs[i].id = LatestDetail.target =>
                LET b == outputs[i].style.background
                    v == LatestDetail.value
                IN  /\ b # ""
                    /\ NamesRed(v) => b = RedBackground
                    /\ (NamesBlue(v) /\ ~NamesRed(v)) => b = BlueBackground
                    /\ (~NamesBlue(v) /\ ~NamesRed(v)) => b \notin {BlueBackground, RedBackground}

\* the numeric magnitude of a number or of a numeric string
IsNumeric(v) == v.t = "number" \/ (v.t = "string" /\ v.s # "" /\ StringToNumber(v.s)[1])
Magnitude(v) == IF v.t = "number" THEN v.n ELSE StringToNumber(v.s)[2]

\* C17: an Animate on shadow snaps: the shadow override is the deep shadow
\* where the magnitude of the value exceeds 10 and the shallow one otherwise,
\* for a number and for a numeric string alike
C17_ShadowSnaps ==
    (LatestTween({Str(Shadow), Str(ShadowJa)}) /\ IsNumeric(LatestDetail.value)) =>
        \A i \in 1..Len(outputs) :
            outputs[i].id = LatestDetail.target =>
                outputs[i].style.boxShadow =
                    IF Magnitude(LatestDetail.value) > ShadowThreshold
                    THEN DeepShadow ELSE ShallowShadow

C17_Witness ==
    /\ LatestTween({Str(Shadow), Str(ShadowJa)})
    /\ IsNumeric(LatestDetail.value)
    /\ Magnitude(LatestDetail.value) = ShadowThreshold
    /\ Len(lines) >= 3
    /\ \E i \in 1..Len(outputs) :
           /\ outputs[i].id = LatestDetail.target
           /\ outputs[i].style.boxShadow = ShallowShadow

\* the run that was started last
LatestRun == Max({r \in Runs : pc[r] # "idle"})

\* C18: a line printed by a run that a later Run has superseded does not
\* change the scene
C18_SupersededRunCannotDraw ==
    [][(last'.op = "info" /\ last'.arg \in Runs /\ last'.arg # LatestRun)
          => outputs' = outputs]_vars

\* the last n entries of a sequence
LastEntries(q, n) == IF Len(q) > n THEN SubSeq(q, Len(q) - n + 1, Len(q)) ELSE q

\* the entry that the latest console call put at the end of the panel
LatestEntryTagged ==
    /\ last.op = "run" => logs[Len(logs)] = "[INFO] " \o Join(last.msg)
    /\ (last.op = "failed" /\ ~crashed) =>
           logs[Len(logs)] = "[ERR] Failed to load Wasm: Error"
    /\ last.op = "log" => logs[Len(logs)] = "[LOG] " \o JoinArgs(last.msg)
    /\ last.op = "error" => logs[Len(logs)] = "[ERR] " \o JoinArgs(last.msg)
    /\ (last.op = "click" /\ wasmRef # 0) => logs[Len(logs)] = "[LOG] Click sent to WASM"
    /\ (last.op = "info" /\ ~crashed) =>
           \E i \in 1..Len(logs) : logs[i] = "[INFO] " \o Join(last.msg)

\* C19: the log panel holds at most 100 entries, which are the most recent
\* entries logged since the reset, in the order they were logged and with
\* their level tags; only Run takes entries away
C19_LogPanel ==
    /\ [](/\ Len(logs) <= PanelSize
          /\ logs = LastEntries(history, PanelSize)
          /\ LatestEntryTagged)
    /\ [][Len(logs') < Len(logs) => last'.op = "run"]_vars

C19_Witness ==
    /\ Len(history) > PanelSize
    /\ Len(logs) = PanelSize
    /\ logs[1] = history[Len(history) - PanelSize + 1]
    /\ logs[1] # history[1]

\* the request in hand has been answered
Answered == post.pc = "answered"
TheResponse == post.responses[1]

KeySet == post.key.t = "string" /\ post.key.s # ""
UpstreamOk == post.upstream >= 200 /\ post.upstream <= 299
HasText == /\ post.data.links = ChainLength
           /\ post.data.text.t = "string"
           /\ post.data.text.s # ""

\* C20: POST answers every request with one JSON response. It is {text}
\* with status 200 only when the key is set, upstream answered ok and its
\* first candidate has non-empty text; otherwise it is {error}: 500 when the
\* key is unset (and then no upstream request was made) or a step threw, the
\* upstream status when upstream was not ok, 400 when the body has no text
C20_PostAnswers ==
    /\ Len(post.responses) <= 1
    /\ Len(post.fetched) <= 1
    /\ Answered <=> Len(post.responses) = 1
    /\ Answered =>
        /\ TheResponse.kind \in {"text", "error"}
        /\ TheResponse.kind = "text" <=>
               (KeySet /\ ~post.rejected /\ UpstreamOk /\ HasText)
        /\ TheResponse.kind = "text" =>
               (TheResponse.status = 200 /\ TheResponse.payload = post.data.text.s)
        /\ ~KeySet => (TheResponse.status = 500 /\ post.fetched = <<>>)
        /\ post.rejected => TheResponse.status = 500
        /\ (KeySet /\ ~post.rejected /\ post.upstream # 0 /\ ~UpstreamOk) =>
               TheResponse.status = post.upstream
        /\ (KeySet /\ ~post.rejected /\ UpstreamOk /\ ~HasText) =>
               TheResponse.status = 400

C20_Witness ==
    /\ post.n = 2
    /\ Answered
    /\ post.key = Str("")
    /\ post.body = "object"
    /\ TheResponse.kind = "error"
    /\ post.fetched = <<>>

\* texture_sample(uv) x color of the fragment in hand
Base == VMul(gpu.texel, gpu.model.color)
Flags == gpu.model.effect_flags
Has(bit) == (Flags \div bit) % 2 = 1

\* the undisplaced position of the vertex in hand, projected:
\* ((2x - w) / w, (h - 2y) / h)
Projected(position, screen_size) ==
    <<RDiv(RSub(RMul(RInt(2), position[1]), screen_size[1]), screen_size[1]),
      RDiv(RSub(screen_size[2], RMul(RInt(2), position[2])), screen_size[2])>>

\* the terms the two fragment effects work with, from the time of the frame
\* and the uv of the fragment: sin(3 t), and the sines of t + uv.x,
\* t + uv.x + 2.09 and t + uv.x + 4.18, each moved from [-1, 1] to [0, 1]
PulseSine == sin(RMul(RInt(3), gpu.globals.time))
PulseTerm == RDiv(RAdd(PulseSine, RInt(1)), RInt(5))
Phase == RAdd(gpu.globals.time, gpu.model.uv[1])
Half(sine) == RDiv(RAdd(sine, RInt(1)), RInt(2))
RainbowVec ==
    Vec4(Half(sin(Phase)), Half(sin(RAdd(Phase, Rat(209, 100)))),
         Half(sin(RAdd(Phase, Rat(418, 100)))), RInt(1))

\* C12: with effect_flags = 0 the fragment output is texture x color and the
\* projected position is that of the undisplaced position, whatever the time
C12_NoFlagsNoEffect ==
    Flags = 0 =>
        /\ gpu.stage = "fs" => gpu.color = Base
        /\ gpu.stage = "vs" =>
               /\ gpu.out.clip_position[1] = Projected(gpu.model.position, gpu.globals.screen_size)[1]
               /\ gpu.out.clip_position[2] = Projected(gpu.model.position, gpu.globals.screen_size)[2]

C12_Witness ==
    /\ gpu.stage = "fs"
    /\ Flags = 0
    /\ PulseSine = RInt(1)
    /\ RainbowVec # Vec4(RInt(1), RInt(1), RInt(1), RInt(1))
    /\ gpu.color = Base
    /\ Base[1] # RInt(0)

PulseVec == Vec4(PulseTerm, PulseTerm, PulseTerm, RInt(0))

\* C13: the fragment stage adds the pulse to texture x color first and
\* multiplies by the rainbow after: with both set the output is
\* (base + pulse) x rainbow; alpha is that of the base
C13_PulseThenRainbow ==
    gpu.stage = "fs" =>
        /\ gpu.color = CASE Has(PulseBit) /\ Has(RainbowBit) -> VMul(VAdd(Base, PulseVec), RainbowVec)
                         [] Has(PulseBit) /\ ~Has(RainbowBit) -> VAdd(Base, PulseVec)
                         [] ~Has(PulseBit) /\ Has(RainbowBit) -> VMul(Base, RainbowVec)
                         [] OTHER -> Base
        /\ gpu.color[4] = Base[4]

C13_Witness ==
    /\ gpu.stage = "fs"
    /\ Has(PulseBit) /\ Has(RainbowBit)
    /\ gpu.color = VMul(VAdd(Base, PulseVec), RainbowVec)
    /\ gpu.color # VAdd(VMul(Base, RainbowVec), PulseVec)

\* C14: without Shake, pixel (0,0) goes to ndc (-1,1), (w,h) to (1,-1) and
\* (w/2,h/2) to (0,0); ndc.x grows with x and ndc.y falls as y grows
C14_Projection ==
    (gpu.stage = "vs" /\ ~Has(ShakeBit)) =>
        LET w == gpu.globals.screen_size[1]
            h == gpu.globals.screen_size[2]
            p == gpu.model.position
            ndc == gpu.out.clip_position
        IN  /\ p = Origin => (ndc[1] = RInt(-1) /\ ndc[2] = RInt(1))
            /\ p = <<w, h>> => (ndc[1] = RInt(1) /\ ndc[2] = RInt(-1))
            /\ p = <<RDiv(w, RInt(2)), RDiv(h, RInt(2))>> => (ndc[1] = RInt(0) /\ ndc[2] = RInt(0))
            /\ (gpu.prev.valid /\ gpu.prev.effect_flags \div ShakeBit % 2 = 0) =>
                   /\ RLess(gpu.prev.position[1], p[1]) => RLess(gpu.prev.clip_position[1], ndc[1])
                   /\ RLess(gpu.prev.position[2], p[2]) => RLess(ndc[2], gpu.prev.clip_position[2])

C14_Witness ==
    /\ gpu.stage = "vs" /\ ~Has(ShakeBit)
    /\ gpu.globals.screen_size = <<RInt(600), RInt(400)>>
    /\ gpu.prev.valid /\ gpu.prev.effect_flags = 0
    /\ gpu.prev.position = Origin
    /\ gpu.prev.clip_position[1] = RInt(-1) /\ gpu.prev.clip_position[2] = RInt(1)
    /\ gpu.model.position = <<RInt(300), RInt(200)>>
    /\ gpu.out.clip_position[1] = RInt(0) /\ gpu.out.clip_position[2] = RInt(0)

\* the sum of the nine tap weights
WeightSum ==
    RAdd(weight[1], RMul(RInt(2), RAdd(RAdd(weight[2], weight[3]), RAdd(weight[4], weight[5]))))
\* the machine epsilon of f32, 2^-23
FloatEpsilon == Rat(1, 8388608)
IsFlat == \A k \in -4..4 : gpu.sample[k] = gpu.sample[0]

\* C15: the nine weights of a blur pass sum to 1.0 within floating epsilon,
\* and a pass over texels of one color returns that color
C15_BlurKeepsFlat ==
    gpu.stage \in {"blur_h", "blur_v"} =>
        /\ RLeq(RSub(RInt(1), WeightSum), FloatEpsilon)
        /\ RLeq(RSub(WeightSum, RInt(1)), FloatEpsilon)
        /\ IsFlat => gpu.color = gpu.sample[0]

\* C16: the pulse term lies in [0, 0.4] and is 0 exactly where
\* sin(3 time) = -1; it is what Pulse alone adds to the rgb channels
C16_PulseRange ==
    (gpu.stage = "fs" /\ Has(PulseBit)) =>
        /\ RLeq(RInt(0), pulse(gpu.globals))
        /\ RLeq(pulse(gpu.globals), Rat(4, 10))
        /\ pulse(gpu.globals) = RInt(0) <=> PulseSine = RInt(-1)
        /\ ~Has(RainbowBit) =>
               \A i \in 1..3 : RSub(gpu.color[i], Base[i]) = pulse(gpu.globals)

C16_Witness ==
    /\ gpu.stage = "fs"
    /\ Flags = PulseBit
    /\ PulseSine = RInt(-1)
    /\ gpu.color = Base
====
